---- MODULE Spec2Model ----
(***************************************************************************)
(* Trust-Mart backend: the escrow transaction orchestrator                 *)
(* (services/EscrowTransactionService.js) and the seller scoring           *)
(* aggregation (services/ai/SellerScoringService.js).                      *)
(*                                                                         *)
(* Ledger model.  The committed contents of the orders, transactions and   *)
(* products tables are the variables orders, txns and product.  A          *)
(* sequelize transaction that is still open keeps its writes private       *)
(* (read-committed): a call's staged rows become visible in the step that  *)
(* commits them.  product.decrement runs UPDATE quantity = quantity - n    *)
(* and holds the product's row lock until its transaction ends, which is   *)
(* productLock.  Every await of a service method is a point where another  *)
(* call may run, so a method is cut into one action per group of           *)
(* statements that ends in a commit, a rollback or the external call.      *)
(* Ledger statements are taken to succeed except in the outcome commits,   *)
(* whose failure the service handles by name (catch updateError).          *)
(* The store is taken to accept every status string the service writes.    *)
(*                                                                         *)
(* Money: prices are whole numbers of the currency's smallest unit.        *)
(* Scores: a score is a whole number of thousandths (900 is 0.9); an       *)
(* aggregated score is the exact fraction <<numerator, denominator>>.      *)
(***************************************************************************)
EXTENDS Integers, FiniteSets, Sequences, TLC

\* ---------------------------------------------------------------- bounds
MaxCalls == 2
MaxStock == 2
MaxQty == 2
MaxRuns == 2
MaxLinks == 2

\* ------------------------------------------------------- values in play
ProductId == "p42"
MissingProductId == "p99"
BuyerUser == "buyer"
SellerUser == "seller"
OtherUser == "other"
UnknownUser == "unknown"
Prices == {100}

Users == {BuyerUser, SellerUser, OtherUser}
CallIds == 1..MaxCalls
\* order 0 is the order of a purchase made before the calls under study
SeedOrder == 0
OrderIds == {SeedOrder} \cup CallIds
NoOrder == [status |-> "none"]
NoTxn == [status |-> "none"]
NoLock == -1

OrderStatus == {"pending", "paid", "shipped", "delivered", "completed",
                "cancelled", "disputed", "refunded"}
PaymentStatus == {"pending", "submitted", "confirmed", "failed", "cancelled"}
TerminalOrderStatus == {"completed", "cancelled", "refunded"}

VARIABLES orders, txns, product, productLock, calls, nextCall, backendCalls,
          stock0, scores, failed, overallScore, scoreTier, phase, runs,
          errorLog, socialAccounts, linkOps, nextLink, socialScore,
          behaviorScore, riskLevel, risk

escrowVars == <<orders, txns, product, productLock, calls, nextCall,
                backendCalls, stock0>>
scoreVars == <<scores, failed, overallScore, scoreTier, phase>>
schedVars == <<runs, errorLog>>
socialVars == <<socialAccounts, linkOps, nextLink, socialScore>>
riskVars == <<behaviorScore, riskLevel, risk>>
vars == <<orders, txns, product, productLock, calls, nextCall, backendCalls,
          stock0, scores, failed, overallScore, scoreTier, phase, runs,
          errorLog, socialAccounts, linkOps, nextLink, socialScore,
          behaviorScore, riskLevel, risk>>

IdleCall == [op |-> "none", pc |-> "idle", user |-> "nobody", orderId |-> -1,
             qty |-> 0, seenQty |-> 0, seenStatus |-> "none", amount |-> 0,
             result |-> "none"]

\* a finished call keeps who called, for which order, and how it ended
Finished(op, user, orderId, result) ==
    [op |-> op, pc |-> "done", user |-> user, orderId |-> orderId,
     qty |-> 0, seenQty |-> 0, seenStatus |-> "none", amount |-> 0,
     result |-> result]

\* the ledger rows an earlier successful purchase of one unit leaves: after
\* its outcome commit (order paid, escrow_create submitted) or after an
\* outcome commit that failed (both rows still pending, lines 214-228)
SeedOrderRow(kind, price) ==
    IF kind = "paid"
      THEN [buyer_id |-> BuyerUser, seller_id |-> SellerUser, amount |-> price,
            quantity |-> 1, status |-> "paid", escrow_address |-> TRUE]
      ELSE [buyer_id |-> BuyerUser, seller_id |-> SellerUser, amount |-> price,
            quantity |-> 1, status |-> "pending", escrow_address |-> FALSE]

SeedTxnRow(kind) ==
    [order_id |-> SeedOrder, transaction_type |-> "escrow_create",
     status |-> IF kind = "paid" THEN "submitted" ELSE "pending"]

EscrowInit ==
    /\ \E q \in 1..MaxStock, s \in {"active", "paused"}, pr \in Prices,
          seed \in {"none", "paid", "pending"} :
          /\ product = [price |-> pr, quantity |-> q, status |-> s,
                        seller_id |-> SellerUser]
          /\ stock0 = q
          /\ orders = [o \in OrderIds |->
                IF o = SeedOrder /\ seed # "none"
                  THEN SeedOrderRow(seed, pr) ELSE NoOrder]
          /\ txns = [t \in OrderIds |->
                IF t = SeedOrder /\ seed # "none" THEN SeedTxnRow(seed) ELSE NoTxn]
    /\ productLock = NoLock
    /\ calls = [c \in CallIds |-> IdleCall]
    /\ nextCall = 1
    /\ backendCalls = [c \in CallIds |-> "none"]

\* generateOrderId / generateTransactionId (lines 606-616): collision-free
\* identifiers; the order or transaction a call creates carries the call's id
generateOrderId(c) == c
generateTransactionId(c) == c

\* --------------------------------------------------- createProductEscrow
\* the guards of lines 33-56, in the order the code tests them
CreateGuard(buyerId, productId, quantity) ==
    IF buyerId \notin Users THEN "NotFound"
    ELSE IF productId # ProductId THEN "NotFound"
    ELSE IF product.status # "active" THEN "InvalidState"
    ELSE IF product.quantity < quantity THEN "InvalidState"
    ELSE "ok"

\* lines 25-60: reads and guards inside the open transaction; a failed guard
\* throws and the catch rolls the empty transaction back
CE_Validate(buyerId, productId, quantity) ==
    LET c == nextCall
        g == CreateGuard(buyerId, productId, quantity) IN
    /\ nextCall <= MaxCalls
    /\ nextCall' = nextCall + 1
    /\ calls' = [calls EXCEPT ![c] =
          IF g # "ok" THEN Finished("create", buyerId, -1, g)
          ELSE [op |-> "create", pc |-> "upload", user |-> buyerId,
                orderId |-> generateOrderId(c), qty |-> quantity,
                seenQty |-> product.quantity, seenStatus |-> "none",
                amount |-> product.price * quantity, result |-> "none"]]
    /\ UNCHANGED <<orders, txns, product, productLock, backendCalls, stock0, scoreVars, schedVars, socialVars, riskVars>>

\* CE_UploadFail with Order.create issued before the upload and outside the
\* transaction, so that the rollback leaves the Order behind
CE_UploadFail_KeepsOrder(c) ==
    /\ calls[c].op = "create" /\ calls[c].pc = "upload"
    /\ orders' = [orders EXCEPT ![calls[c].orderId] =
          [buyer_id |-> calls[c].user, seller_id |-> product.seller_id,
           amount |-> calls[c].amount, quantity |-> calls[c].qty,
           status |-> "pending", escrow_address |-> FALSE]]
    /\ calls' = [calls EXCEPT ![c] =
          Finished("create", calls[c].user, calls[c].orderId, "UploadFailed")]
    /\ UNCHANGED <<txns, product, productLock, nextCall, backendCalls, stock0, scoreVars, schedVars, socialVars, riskVars>>

\* line 90: the metadata upload throws; the catch rolls the empty
\* transaction back
CE_UploadFail(c) ==
    /\ calls[c].op = "create" /\ calls[c].pc = "upload"
    /\ calls' = [calls EXCEPT ![c] =
          Finished("create", calls[c].user, calls[c].orderId, "UploadFailed")]
    /\ UNCHANGED <<orders, txns, product, productLock, nextCall, backendCalls, stock0, scoreVars, schedVars, socialVars, riskVars>>

\* lines 110-170: Order.create, Transaction.create and product.decrement are
\* staged in the open transaction (the decrement waits for the row lock),
\* then the settlement backend is invoked with the transaction still open
CE_LocalWrites(c) ==
    /\ calls[c].op = "create" /\ calls[c].pc = "upload"
    /\ productLock = NoLock
    /\ productLock' = c
    /\ calls' = [calls EXCEPT ![c].pc = "settle"]
    /\ backendCalls' = [backendCalls EXCEPT ![c] = "invoked"]
    /\ UNCHANGED <<orders, txns, product, nextCall, stock0, scoreVars, schedVars, socialVars, riskVars>>

\* the rows the open transaction of call c holds (lines 110-145)
StagedOrder(c) ==
    [buyer_id |-> calls[c].user, seller_id |-> product.seller_id,
     amount |-> calls[c].amount, quantity |-> calls[c].qty,
     status |-> "pending", escrow_address |-> FALSE]

StagedTxn(c) ==
    [order_id |-> calls[c].orderId, transaction_type |-> "escrow_create",
     status |-> "pending"]

\* lines 475-499: rollbackOrder, in a transaction of its own, deletes the
\* committed rows that carry the order id
rollbackOrderOrders(ords, orderId) ==
    [o \in DOMAIN ords |-> IF o = orderId THEN NoOrder ELSE ords[o]]

rollbackOrderTxns(tx, orderId) ==
    [t \in DOMAIN tx |->
        IF tx[t] # NoTxn /\ tx[t].order_id = orderId THEN NoTxn ELSE tx[t]]

\* CE_SettleFail with the first transaction committed instead of rolled back
CE_SettleFail_Commits(c) ==
    /\ calls[c].op = "create" /\ calls[c].pc = "settle"
    /\ orders' = [orders EXCEPT ![calls[c].orderId] = StagedOrder(c)]
    /\ txns' = [txns EXCEPT ![generateTransactionId(c)] = StagedTxn(c)]
    /\ productLock' = NoLock
    /\ calls' = [calls EXCEPT ![c] =
          Finished("create", calls[c].user, calls[c].orderId, "SettlementFailed")]
    /\ backendCalls' = [backendCalls EXCEPT ![c] = "failure"]
    /\ UNCHANGED <<product, nextCall, stock0, scoreVars, schedVars, socialVars, riskVars>>

\* CE_SettleFail with the decrement committed before the backend call, so
\* that the rollback leaves it in place
CE_SettleFail_KeepsDecrement(c) ==
    /\ calls[c].op = "create" /\ calls[c].pc = "settle"
    /\ orders' = rollbackOrderOrders(orders, calls[c].orderId)
    /\ txns' = rollbackOrderTxns(txns, calls[c].orderId)
    /\ product' = [product EXCEPT !.quantity = @ - calls[c].qty]
    /\ productLock' = NoLock
    /\ calls' = [calls EXCEPT ![c] =
          Finished("create", calls[c].user, calls[c].orderId, "SettlementFailed")]
    /\ backendCalls' = [backendCalls EXCEPT ![c] = "failure"]
    /\ UNCHANGED <<nextCall, stock0, scoreVars, schedVars, socialVars, riskVars>>

\* CE_SettleFail with the staged rows committed and a rollback that deletes
\* the Order but not its Transaction
CE_SettleFail_OrderOnly(c) ==
    /\ calls[c].op = "create" /\ calls[c].pc = "settle"
    /\ orders' = rollbackOrderOrders(orders, calls[c].orderId)
    /\ txns' = [txns EXCEPT ![generateTransactionId(c)] = StagedTxn(c)]
    /\ productLock' = NoLock
    /\ calls' = [calls EXCEPT ![c] =
          Finished("create", calls[c].user, calls[c].orderId, "SettlementFailed")]
    /\ backendCalls' = [backendCalls EXCEPT ![c] = "failure"]
    /\ UNCHANGED <<product, nextCall, stock0, scoreVars, schedVars, socialVars, riskVars>>

\* lines 172-176 and 231-238: the backend reports failure; rollbackOrder
\* runs, the error is thrown and the catch rolls the open transaction back,
\* which drops the staged rows and the staged decrement
CE_SettleFail(c) ==
    /\ calls[c].op = "create" /\ calls[c].pc = "settle"
    /\ orders' = rollbackOrderOrders(orders, calls[c].orderId)
    /\ txns' = rollbackOrderTxns(txns, calls[c].orderId)
    /\ productLock' = NoLock
    /\ calls' = [calls EXCEPT ![c] =
          Finished("create", calls[c].user, calls[c].orderId, "SettlementFailed")]
    /\ backendCalls' = [backendCalls EXCEPT ![c] = "failure"]
    /\ UNCHANGED <<product, nextCall, stock0, scoreVars, schedVars, socialVars, riskVars>>

\* CE_SettleOk with the stock decremented by one unit whatever the quantity
CE_SettleOk_ByOne(c) ==
    /\ calls[c].op = "create" /\ calls[c].pc = "settle"
    /\ orders' = [orders EXCEPT ![calls[c].orderId] = StagedOrder(c)]
    /\ txns' = [txns EXCEPT ![generateTransactionId(c)] = StagedTxn(c)]
    /\ product' = [product EXCEPT !.quantity = @ - 1]
    /\ productLock' = NoLock
    /\ calls' = [calls EXCEPT ![c].pc = "outcome"]
    /\ backendCalls' = [backendCalls EXCEPT ![c] = "success"]
    /\ UNCHANGED <<nextCall, stock0, scoreVars, schedVars, socialVars, riskVars>>

\* line 178: the backend reports success and the first transaction commits
CE_SettleOk(c) ==
    /\ calls[c].op = "create" /\ calls[c].pc = "settle"
    /\ orders' = [orders EXCEPT ![calls[c].orderId] = StagedOrder(c)]
    /\ txns' = [txns EXCEPT ![generateTransactionId(c)] = StagedTxn(c)]
    /\ product' = [product EXCEPT !.quantity = @ - calls[c].qty]
    /\ productLock' = NoLock
    /\ calls' = [calls EXCEPT ![c].pc = "outcome"]
    /\ backendCalls' = [backendCalls EXCEPT ![c] = "success"]
    /\ UNCHANGED <<nextCall, stock0, scoreVars, schedVars, socialVars, riskVars>>

\* CE_Outcome with a failed outcome commit rethrown as an error
CE_Outcome_Throws(c, dbOk) ==
    /\ calls[c].op = "create" /\ calls[c].pc = "outcome"
    /\ IF dbOk
         THEN /\ txns' = [txns EXCEPT ![generateTransactionId(c)].status = "submitted"]
              /\ orders' = [orders EXCEPT ![calls[c].orderId].status = "paid",
                                          ![calls[c].orderId].escrow_address = TRUE]
              /\ calls' = [calls EXCEPT ![c] =
                    Finished("create", calls[c].user, calls[c].orderId, "paid")]
         ELSE /\ UNCHANGED <<txns, orders>>
              /\ calls' = [calls EXCEPT ![c] =
                    Finished("create", calls[c].user, calls[c].orderId,
                             "UpdateFailed")]
    /\ UNCHANGED <<product, productLock, nextCall, backendCalls, stock0, scoreVars, schedVars, socialVars, riskVars>>

\* lines 180-229: the outcome commit, or its failure
CE_Outcome(c, dbOk) ==
    /\ calls[c].op = "create" /\ calls[c].pc = "outcome"
    /\ IF dbOk
         THEN /\ txns' = [txns EXCEPT ![generateTransactionId(c)].status = "submitted"]
              /\ orders' = [orders EXCEPT ![calls[c].orderId].status = "paid",
                                          ![calls[c].orderId].escrow_address = TRUE]
              /\ calls' = [calls EXCEPT ![c] =
                    Finished("create", calls[c].user, calls[c].orderId, "paid")]
         ELSE /\ UNCHANGED <<txns, orders>>
              /\ calls' = [calls EXCEPT ![c] =
                    Finished("create", calls[c].user, calls[c].orderId,
                             "paid_but_update_failed")]
    /\ UNCHANGED <<product, productLock, nextCall, backendCalls, stock0, scoreVars, schedVars, socialVars, riskVars>>

\* -------------------------------------------------- rollbackOrderStatus
\* lines 501-526: the order goes back to previousStatus and every pending
\* transaction of the order, whatever its type, is marked failed
rollbackOrderStatusOrders(ords, orderId, previousStatus) ==
    [o \in DOMAIN ords |->
        IF o = orderId /\ ords[o] # NoOrder
          THEN [ords[o] EXCEPT !.status = previousStatus] ELSE ords[o]]

rollbackOrderStatusTxns(tx, orderId) ==
    [t \in DOMAIN tx |->
        IF tx[t] # NoTxn /\ tx[t].order_id = orderId /\ tx[t].status = "pending"
          THEN [tx[t] EXCEPT !.status = "failed"] ELSE tx[t]]

\* ---------------------------------------------------------- releaseEscrow
\* ReleaseGuard without the status test of line 275
ReleaseGuard_NoStatusTest(order, buyerId) ==
    IF order = NoOrder THEN "NotFound"
    ELSE IF order.buyer_id # buyerId THEN "Forbidden"
    ELSE IF ~order.escrow_address THEN "NoEscrow"
    ELSE "ok"

\* the guards of lines 263-277, in the order the code tests them
ReleaseGuard(order, buyerId) ==
    IF order = NoOrder THEN "NotFound"
    ELSE IF order.buyer_id # buyerId THEN "Forbidden"
    ELSE IF ~order.escrow_address THEN "NoEscrow"
    ELSE IF order.status # "paid" THEN "InvalidState"
    ELSE "ok"

\* lines 249-277: Order.findOne and the guards
RE_Read(buyerId, orderId) ==
    LET c == nextCall
        g == ReleaseGuard(orders[orderId], buyerId) IN
    /\ nextCall <= MaxCalls
    /\ nextCall' = nextCall + 1
    /\ calls' = [calls EXCEPT ![c] =
          IF g # "ok" THEN Finished("release", buyerId, orderId, g)
          ELSE [op |-> "release", pc |-> "intent", user |-> buyerId,
                orderId |-> orderId, qty |-> 0, seenQty |-> 0,
                seenStatus |-> orders[orderId].status,
                amount |-> orders[orderId].amount, result |-> "none"]]
    /\ UNCHANGED <<orders, txns, product, productLock, backendCalls, stock0, scoreVars, schedVars, socialVars, riskVars>>

\* lines 280-308: the intent commit (pending escrow_release row, order
\* release_pending), then the backend is invoked
RE_Intent(c) ==
    /\ calls[c].op = "release" /\ calls[c].pc = "intent"
    /\ txns' = [txns EXCEPT ![generateTransactionId(c)] =
                  [order_id |-> calls[c].orderId,
                   transaction_type |-> "escrow_release", status |-> "pending"]]
    /\ orders' = [orders EXCEPT ![calls[c].orderId].status = "release_pending"]
    /\ calls' = [calls EXCEPT ![c].pc = "settle"]
    /\ backendCalls' = [backendCalls EXCEPT ![c] = "invoked"]
    /\ UNCHANGED <<product, productLock, nextCall, stock0, scoreVars, schedVars, socialVars, riskVars>>

\* RE_SettleFail without the call of rollbackOrderStatus
RE_SettleFail_NoRollback(c) ==
    /\ calls[c].op = "release" /\ calls[c].pc = "settle"
    /\ UNCHANGED <<orders, txns>>
    /\ calls' = [calls EXCEPT ![c] =
          Finished("release", calls[c].user, calls[c].orderId, "SettlementFailed")]
    /\ backendCalls' = [backendCalls EXCEPT ![c] = "failure"]
    /\ UNCHANGED <<product, productLock, nextCall, stock0, scoreVars, schedVars, socialVars, riskVars>>

\* lines 310-314 and 350-356: the backend reports failure
RE_SettleFail(c) ==
    /\ calls[c].op = "release" /\ calls[c].pc = "settle"
    /\ orders' = rollbackOrderStatusOrders(orders, calls[c].orderId, "paid")
    /\ txns' = rollbackOrderStatusTxns(txns, calls[c].orderId)
    /\ calls' = [calls EXCEPT ![c] =
          Finished("release", calls[c].user, calls[c].orderId, "SettlementFailed")]
    /\ backendCalls' = [backendCalls EXCEPT ![c] = "failure"]
    /\ UNCHANGED <<product, productLock, nextCall, stock0, scoreVars, schedVars, socialVars, riskVars>>

\* lines 316-348: the backend reports success; the outcome commit or its
\* failure
RE_SettleOk(c, dbOk) ==
    /\ calls[c].op = "release" /\ calls[c].pc = "settle"
    /\ IF dbOk
         THEN /\ txns' = [txns EXCEPT ![generateTransactionId(c)].status = "released"]
              /\ orders' = [orders EXCEPT ![calls[c].orderId].status = "completed"]
              /\ calls' = [calls EXCEPT ![c] =
                    Finished("release", calls[c].user, calls[c].orderId, "released")]
         ELSE /\ UNCHANGED <<txns, orders>>
              /\ calls' = [calls EXCEPT ![c] =
                    Finished("release", calls[c].user, calls[c].orderId, "UpdateFailed")]
    /\ backendCalls' = [backendCalls EXCEPT ![c] = "success"]
    /\ UNCHANGED <<product, productLock, nextCall, stock0, scoreVars, schedVars, socialVars, riskVars>>

\* ----------------------------------------------------------- raiseDispute
\* the guards of lines 386-392
DisputeGuard(order, userId) ==
    IF order = NoOrder THEN "NotFound"
    ELSE IF order.buyer_id # userId /\ order.seller_id # userId THEN "Forbidden"
    ELSE "ok"

\* lines 368-394: Order.findOne and the guards
RD_Read(userId, orderId) ==
    LET c == nextCall
        g == DisputeGuard(orders[orderId], userId) IN
    /\ nextCall <= MaxCalls
    /\ nextCall' = nextCall + 1
    /\ calls' = [calls EXCEPT ![c] =
          IF g # "ok" THEN Finished("dispute", userId, orderId, g)
          ELSE [op |-> "dispute", pc |-> "intent", user |-> userId,
                orderId |-> orderId, qty |-> 0, seenQty |-> 0,
                seenStatus |-> orders[orderId].status,
                amount |-> orders[orderId].amount, result |-> "none"]]
    /\ UNCHANGED <<orders, txns, product, productLock, backendCalls, stock0, scoreVars, schedVars, socialVars, riskVars>>

\* lines 397-426: the intent commit (pending escrow_dispute row, order
\* dispute_pending), then the backend is invoked.  order.update saves the
\* fields whose value differs from the instance read at line 372: an
\* instance that already reads dispute_pending issues no UPDATE.
RD_Intent(c) ==
    /\ calls[c].op = "dispute" /\ calls[c].pc = "intent"
    /\ txns' = [txns EXCEPT ![generateTransactionId(c)] =
                  [order_id |-> calls[c].orderId,
                   transaction_type |-> "escrow_dispute", status |-> "pending"]]
    /\ orders' = IF calls[c].seenStatus = "dispute_pending" THEN orders
                 ELSE [orders EXCEPT ![calls[c].orderId].status = "dispute_pending"]
    /\ calls' = [calls EXCEPT ![c].pc = "settle"]
    /\ backendCalls' = [backendCalls EXCEPT ![c] = "invoked"]
    /\ UNCHANGED <<product, productLock, nextCall, stock0, scoreVars, schedVars, socialVars, riskVars>>

\* lines 428-431 and 465-471: the backend reports failure
RD_SettleFail(c) ==
    /\ calls[c].op = "dispute" /\ calls[c].pc = "settle"
    /\ orders' = rollbackOrderStatusOrders(orders, calls[c].orderId, "paid")
    /\ txns' = rollbackOrderStatusTxns(txns, calls[c].orderId)
    /\ calls' = [calls EXCEPT ![c] =
          Finished("dispute", calls[c].user, calls[c].orderId, "SettlementFailed")]
    /\ backendCalls' = [backendCalls EXCEPT ![c] = "failure"]
    /\ UNCHANGED <<product, productLock, nextCall, stock0, scoreVars, schedVars, socialVars, riskVars>>

\* lines 433-463: the backend reports success; the outcome commit or its
\* failure
RD_SettleOk(c, dbOk) ==
    /\ calls[c].op = "dispute" /\ calls[c].pc = "settle"
    /\ IF dbOk
         THEN /\ txns' = [txns EXCEPT ![generateTransactionId(c)].status = "disputed"]
              /\ orders' = [orders EXCEPT ![calls[c].orderId].status = "disputed"]
              /\ calls' = [calls EXCEPT ![c] =
                    Finished("dispute", calls[c].user, calls[c].orderId, "dispute_raised")]
         ELSE /\ UNCHANGED <<txns, orders>>
              /\ calls' = [calls EXCEPT ![c] =
                    Finished("dispute", calls[c].user, calls[c].orderId, "UpdateFailed")]
    /\ backendCalls' = [backendCalls EXCEPT ![c] = "success"]
    /\ UNCHANGED <<product, productLock, nextCall, stock0, scoreVars, schedVars, socialVars, riskVars>>

\* ------------------------------------------------- what the caller gets
\* the results a method returns as an object with success: true (lines
\* 204-212, 219-228, 336-342, 451-457); every other result is an Error
\* thrown by the method's outer catch (lines 237, 355, 470)
ReturnedResults == {"paid", "paid_but_update_failed", "released", "dispute_raised"}

\* the reply of a finished call: a returned object, with its warning field
\* (line 227), or a thrown Error, which carries nothing but its message
Reply(result) ==
    IF result \in ReturnedResults
      THEN [kind |-> "returned", success |-> TRUE,
            warning |-> (result = "paid_but_update_failed")]
      ELSE [kind |-> "Error", success |-> FALSE, warning |-> FALSE]

Next ==
    \/ \E b \in {BuyerUser, UnknownUser}, p \in {ProductId, MissingProductId},
          q \in 1..MaxQty : CE_Validate(b, p, q)
    \/ \E c \in CallIds : CE_UploadFail(c)
    \/ \E c \in CallIds : CE_LocalWrites(c)
    \/ \E c \in CallIds : CE_SettleFail(c)
    \/ \E c \in CallIds : CE_SettleOk(c)
    \/ \E c \in CallIds, dbOk \in BOOLEAN : CE_Outcome(c, dbOk)
    \/ \E u \in {BuyerUser, OtherUser}, o \in OrderIds : RE_Read(u, o)
    \/ \E c \in CallIds : RE_Intent(c)
    \/ \E c \in CallIds : RE_SettleFail(c)
    \/ \E c \in CallIds, dbOk \in BOOLEAN : RE_SettleOk(c, dbOk)
    \/ \E u \in Users, o \in OrderIds : RD_Read(u, o)
    \/ \E c \in CallIds : RD_Intent(c)
    \/ \E c \in CallIds : RD_SettleFail(c)
    \/ \E c \in CallIds, dbOk \in BOOLEAN : RD_SettleOk(c, dbOk)

\* ------------------------------------------------- SellerScoringService
Analyzers == {"socialVerification", "legitimacyScore", "behaviorScore",
              "fraudScore", "transactionHistory", "productQuality"}

\* constructor, lines 17-35, in hundredths
scoringWeights ==
    [a \in Analyzers |->
        CASE a = "socialVerification" -> 25
          [] a = "legitimacyScore" -> 20
          [] a = "behaviorScore" -> 20
          [] a = "fraudScore" -> 15
          [] a = "transactionHistory" -> 10
          [] a = "productQuality" -> 10]

\* constructor, lines 37-44, in thousandths and in the order of the object's
\* keys
scoreTiers ==
    << [tier |-> "excellent", min |-> 900, max |-> 1000],
       [tier |-> "veryGood", min |-> 800, max |-> 890],
       [tier |-> "good", min |-> 700, max |-> 790],
       [tier |-> "fair", min |-> 600, max |-> 690],
       [tier |-> "poor", min |-> 400, max |-> 590],
       [tier |-> "veryPoor", min |-> 0, max |-> 390] >>

\* what an analyzer's catch block returns (lines 245, 280, 315, 357, 406, 476)
failureFallback ==
    [a \in Analyzers |-> IF a = "socialVerification" THEN 300 ELSE 500]

Thousandths == 0..1000
ScoreValues == {0, 850, 1000}
Missing == [kind |-> "missing"]
NonNumber == [kind |-> "nonNumber"]
Scored(v) == [kind |-> "number", score |-> v]

\* line 511: scores[factor] && typeof scores[factor].score === 'number'
Usable(entry) == entry.kind = "number"

RECURSIVE SumOver(_, _, _)
SumOver(S, f, g) ==
    IF S = {} THEN 0
    ELSE LET a == CHOOSE x \in S : TRUE IN f[a] * g[a] + SumOver(S \ {a}, f, g)

One == [a \in Analyzers |-> 1]

\* calculateWeightedScore with 0 as the value of an empty aggregation
calculateWeightedScore_ZeroDefault(sc) ==
    LET used == {a \in Analyzers : Usable(sc[a])}
        val == [a \in Analyzers |-> IF Usable(sc[a]) THEN sc[a].score ELSE 0]
        totalScore == SumOver(used, val, scoringWeights)
        totalWeight == SumOver(used, scoringWeights, One)
    IN IF totalWeight > 0 THEN <<totalScore, totalWeight>> ELSE <<0, 1>>

\* lines 506-518; the result is the fraction <<numerator, denominator>> of
\* thousandths, 0.5 being <<500, 1>>
calculateWeightedScore(sc) ==
    LET used == {a \in Analyzers : Usable(sc[a])}
        val == [a \in Analyzers |-> IF Usable(sc[a]) THEN sc[a].score ELSE 0]
        totalScore == SumOver(used, val, scoringWeights)
        totalWeight == SumOver(used, scoringWeights, One)
    IN IF totalWeight > 0 THEN <<totalScore, totalWeight>> ELSE <<500, 1>>

\* lines 523-537: the first band, in key order, with min <= score <= max;
\* line 536 falls back to the veryPoor band
RECURSIVE TierFrom(_, _)
TierFrom(i, score) ==
    IF i > Len(scoreTiers) THEN "veryPoor"
    ELSE IF /\ score[1] >= scoreTiers[i].min * score[2]
            /\ score[1] <= scoreTiers[i].max * score[2]
      THEN scoreTiers[i].tier
    ELSE TierFrom(i + 1, score)

getScoreTier(score) == TierFrom(1, score)

ScoreIdle ==
    /\ scores = [a \in Analyzers |-> Missing]
    /\ failed = {}
    /\ overallScore = <<0, 1>>
    /\ scoreTier = "none"
    /\ phase = "analyzing"

\* RunAnalyzer without the analyzer's try/catch: a data-fetch error rejects
\* the Promise.all and calculateSellerScore throws
RunAnalyzer_Propagates(a, ok, v) ==
    /\ phase = "analyzing"
    /\ scores[a] = Missing
    /\ scores' = IF ok THEN [scores EXCEPT ![a] = Scored(v)] ELSE scores
    /\ failed' = IF ok THEN failed ELSE failed \cup {a}
    /\ phase' = IF ok THEN phase ELSE "failed"
    /\ UNCHANGED <<overallScore, scoreTier, escrowVars, schedVars, socialVars, riskVars>>

\* lines 203-478: one analyzer of calculateSellerScore settles; a data-fetch
\* error is caught inside the analyzer, which returns its fallback score
RunAnalyzer(a, ok, v) ==
    /\ phase = "analyzing"
    /\ scores[a] = Missing
    /\ scores' = [scores EXCEPT ![a] =
                    IF ok THEN Scored(v) ELSE Scored(failureFallback[a])]
    /\ failed' = IF ok THEN failed ELSE failed \cup {a}
    /\ UNCHANGED <<overallScore, scoreTier, phase, escrowVars, schedVars, socialVars, riskVars>>

\* lines 136-156: after Promise.all, the weighted score and its tier
CalculateSellerScore ==
    /\ phase = "analyzing"
    /\ \A a \in Analyzers : scores[a] # Missing
    /\ overallScore' = calculateWeightedScore(scores)
    /\ scoreTier' = getScoreTier(calculateWeightedScore(scores))
    /\ phase' = "scored"
    /\ UNCHANGED <<scores, failed, escrowVars, schedVars, socialVars, riskVars>>

\* lines 121-124 and 193-196: User.findByPk finds no user and
\* calculateSellerScore throws before any analyzer runs
UserNotFound ==
    /\ phase = "analyzing"
    /\ \A a \in Analyzers : scores[a] = Missing
    /\ phase' = "failed"
    /\ UNCHANGED <<scores, failed, overallScore, scoreTier, escrowVars, schedVars, socialVars, riskVars>>

\* no analyzer has run yet
Fresh == phase = "analyzing" /\ \A a \in Analyzers : scores[a] = Missing

\* the score objects calculateWeightedScore is applied to: an entry may be
\* absent, or carry no numeric score
ScoreObjects == [Analyzers -> {Missing, NonNumber, Scored(0), Scored(1000)}]

\* calculateWeightedScore and getScoreTier applied to a score object
AggregateCall ==
    /\ Fresh
    /\ \E sc \in ScoreObjects :
          /\ scores' = sc
          /\ overallScore' = calculateWeightedScore(sc)
          /\ scoreTier' = getScoreTier(calculateWeightedScore(sc))
    /\ phase' = "aggregated"
    /\ UNCHANGED <<failed, escrowVars, schedVars, socialVars, riskVars>>

\* getScoreTier applied to a score
TierCall ==
    /\ Fresh
    /\ \E v \in Thousandths :
          /\ overallScore' = <<v, 1>>
          /\ scoreTier' = getScoreTier(<<v, 1>>)
    /\ phase' = "tiered"
    /\ UNCHANGED <<scores, failed, escrowVars, schedVars, socialVars, riskVars>>

NextScore ==
    \/ \E a \in Analyzers, v \in ScoreValues : RunAnalyzer(a, TRUE, v)
    \/ \E a \in Analyzers : RunAnalyzer(a, FALSE, 0)
    \/ CalculateSellerScore
    \/ UserNotFound
    \/ AggregateCall
    \/ TierCall

\* ------------------------------------------------------------ schedulers
\* the three setInterval schedulers: seller scoring (SellerScoringService
\* lines 73-83), legitimacy monitoring (startMonitoringScheduler) and
\* behavior monitoring (BehaviorMonitoringService lines 67-77)
Families == {"scoring", "legitimacy", "behavior"}

\* the limit of the User.findAll of a run (limit: 50, line 99; 100 in the
\* behavior family), scaled down to two subjects
BatchLimit == 2

\* where a run of the queue processing stands: awaiting User.findAll, or in
\* the for loop with a number of users left to process
AwaitingFindAll == <<"findAll", 0>>
InLoop(left) == <<"loop", left>>
RunStates == {AwaitingFindAll} \cup {InLoop(k) : k \in 0..BatchLimit}

\* runs[f][st] is the number of runs of family f that stand at st;
\* errorLog holds the families whose loop has logged a subject's error
SchedIdle ==
    /\ runs = [f \in Families |-> [st \in RunStates |-> 0]]
    /\ errorLog = {}

RECURSIVE CountRuns(_, _)
CountRuns(f, S) ==
    IF S = {} THEN 0
    ELSE LET st == CHOOSE x \in S : TRUE IN runs[f][st] + CountRuns(f, S \ {st})

\* the runs of family f that have started and not yet returned
ActiveRuns(f) == CountRuns(f, RunStates)

\* the timer of family f fires: the callback calls the queue processing
\* at once, whatever earlier run is still awaiting (there is no test before
\* the call)
Tick(f) ==
    /\ ActiveRuns(f) < MaxRuns
    /\ runs' = [runs EXCEPT ![f][AwaitingFindAll] = @ + 1]
    /\ UNCHANGED <<errorLog, escrowVars, scoreVars, socialVars, riskVars>>

\* User.findAll resolves with n users to process (lines 89-99)
FindAll(f, n) ==
    /\ runs[f][AwaitingFindAll] > 0
    /\ runs' = [runs EXCEPT ![f][AwaitingFindAll] = @ - 1,
                            ![f][InLoop(n)] = @ + 1]
    /\ UNCHANGED <<errorLog, escrowVars, scoreVars, socialVars, riskVars>>

\* ProcessOne without the try/catch around the loop body: a subject's error
\* leaves the loop and ends the run in the outer catch
ProcessOne_Aborts(f, left, ok) ==
    /\ left > 0
    /\ runs[f][InLoop(left)] > 0
    /\ runs' = IF ok THEN [runs EXCEPT ![f][InLoop(left)] = @ - 1,
                                       ![f][InLoop(left - 1)] = @ + 1]
               ELSE [runs EXCEPT ![f][InLoop(left)] = @ - 1]
    /\ errorLog' = IF ok THEN errorLog ELSE errorLog \cup {f}
    /\ UNCHANGED <<escrowVars, scoreVars, socialVars, riskVars>>

\* one iteration of the for loop: the awaited per-user work settles or
\* throws (lines 103-109); the error is caught inside the loop body and
\* logged, and the loop goes on with the next subject
ProcessOne(f, left, ok) ==
    /\ left > 0
    /\ runs[f][InLoop(left)] > 0
    /\ runs' = [runs EXCEPT ![f][InLoop(left)] = @ - 1,
                            ![f][InLoop(left - 1)] = @ + 1]
    /\ errorLog' = IF ok THEN errorLog ELSE errorLog \cup {f}
    /\ UNCHANGED <<escrowVars, scoreVars, socialVars, riskVars>>

\* the loop is over and the run's promise resolves
RunDone(f) ==
    /\ runs[f][InLoop(0)] > 0
    /\ runs' = [runs EXCEPT ![f][InLoop(0)] = @ - 1]
    /\ UNCHANGED <<errorLog, escrowVars, scoreVars, socialVars, riskVars>>

NextSched ==
    \/ \E f \in Families : Tick(f)
    \/ \E f \in Families, n \in 0..BatchLimit : FindAll(f, n)
    \/ \E f \in Families, left \in 1..BatchLimit, ok \in BOOLEAN :
          ProcessOne(f, left, ok)
    \/ \E f \in Families : RunDone(f)

\* ------------------------------------------------------- social accounts
\* SocialAccountLinkingService (src/unnamed/part_012) and the social
\* verification analyzer of SellerScoringService; scores in thousandths
supportedPlatforms == {"facebook", "instagram", "whatsapp", "contact"}

\* the platforms the callers of the model ask for; "tiktok" is a platform
\* the service does not support
RequestedPlatforms == {"whatsapp", "instagram", "contact", "tiktok"}

\* some of the scores each platform's verifier can give: WhatsApp adds
\* 0.4, 0.3, 0.2 and 0.1 (business account plus account age is exactly
\* 0.5), Instagram 0.3, 0.2, 0.2, 0.15, 0.1 and 0.05 (the last four make
\* 0.49999999999999994 in floating point, written 499), the contact number
\* 0.6, 0.2 and 0.2, Facebook 0.3, 0.2, 0.2, 0.2 and 0.1
VerificationResults ==
    [p \in supportedPlatforms |->
        CASE p = "whatsapp" -> {300, 500, 800}
          [] p = "instagram" -> {499, 700}
          [] p = "contact" -> {400, 800}
          [] p = "facebook" -> {600, 900}]

\* what verifyAccountData returns for the platform: a verifier's score, or
\* score 0 from its default branch
VerificationOutcomes(platform) ==
    IF platform \in supportedPlatforms THEN VerificationResults[platform]
    ELSE {0}

\* success: score >= 0.5 in every platform verifier
verificationSucceeds(score) == score >= 500

LinkIds == 1..MaxLinks
NoAccounts == << >>
IdleLink == [op |-> "none", platform |-> "none", pc |-> "idle", score |-> 0,
             seen |-> NoAccounts, result |-> "none"]
NoSocialScore == [fetched |-> FALSE, accounts |-> NoAccounts,
                  score |-> <<0, 1>>, computed |-> FALSE]

\* the linked account object; its id is platform_<time>, here the operation
LinkedAccount(platform, score, l) ==
    [id |-> l, platform |-> platform, verificationScore |-> score]

PlatformsOf(accounts) == {accounts[i].platform : i \in DOMAIN accounts}

\* existingAccounts.filter(account => account.platform !== platform)
FilterOut(accounts, platform) ==
    SelectSeq(accounts, LAMBDA a : a.platform # platform)

SocialIdle ==
    /\ socialAccounts = NoAccounts
    /\ linkOps = [l \in LinkIds |-> IdleLink]
    /\ nextLink = 1
    /\ socialScore = NoSocialScore

FinishedLink(op, platform, result) ==
    [IdleLink EXCEPT !.op = op, !.platform = platform, !.pc = "done",
                     !.result = result]

\* linkSocialAccount up to the call of updateUserSocialAccounts: the user
\* is looked up, the platform is checked, the account data verified and the
\* linked account object built; every failure is rethrown
LinkStart(user, platform, score) ==
    /\ nextLink \in LinkIds
    /\ nextLink' = nextLink + 1
    /\ linkOps' = [linkOps EXCEPT ![nextLink] =
          IF user = UnknownUser
            THEN FinishedLink("link", platform, "UserNotFound")
          ELSE IF platform \notin supportedPlatforms
            THEN FinishedLink("link", platform, "UnsupportedPlatform")
          ELSE IF ~verificationSucceeds(score)
            THEN FinishedLink("link", platform, "VerificationFailed")
          ELSE [IdleLink EXCEPT !.op = "link", !.platform = platform,
                                !.pc = "findByPk", !.score = score]]
    /\ UNCHANGED <<socialAccounts, socialScore, escrowVars, scoreVars, schedVars, riskVars>>

\* updateUserSocialAccounts: User.findByPk resolves with the stored list
LinkRead(l) ==
    /\ linkOps[l].op = "link"
    /\ linkOps[l].pc = "findByPk"
    /\ linkOps' = [linkOps EXCEPT ![l].pc = "update", ![l].seen = socialAccounts]
    /\ UNCHANGED <<socialAccounts, nextLink, socialScore, escrowVars, scoreVars, schedVars, riskVars>>

\* LinkWrite without the filter: the new account is pushed onto the list
\* that was read, the platform's old entry included
LinkWrite_NoFilter(l) ==
    /\ linkOps[l].op = "link"
    /\ linkOps[l].pc = "update"
    /\ socialAccounts' =
          Append(linkOps[l].seen,
                 LinkedAccount(linkOps[l].platform, linkOps[l].score, l))
    /\ linkOps' = [linkOps EXCEPT ![l].pc = "done", ![l].result = "linked"]
    /\ UNCHANGED <<nextLink, socialScore, escrowVars, scoreVars, schedVars, riskVars>>

\* updateUserSocialAccounts: the list that was read, without the platform's
\* old entry and with the new account pushed, is written by user.update;
\* the legitimacy check that follows changes nothing stored
LinkWrite(l) ==
    /\ linkOps[l].op = "link"
    /\ linkOps[l].pc = "update"
    /\ socialAccounts' =
          Append(FilterOut(linkOps[l].seen, linkOps[l].platform),
                 LinkedAccount(linkOps[l].platform, linkOps[l].score, l))
    /\ linkOps' = [linkOps EXCEPT ![l].pc = "done", ![l].result = "linked"]
    /\ UNCHANGED <<nextLink, socialScore, escrowVars, scoreVars, schedVars, riskVars>>

\* unlinkSocialAccount: User.findByPk resolves; a platform with no entry in
\* the list read is refused
UnlinkRead(user, platform) ==
    /\ nextLink \in LinkIds
    /\ nextLink' = nextLink + 1
    /\ linkOps' = [linkOps EXCEPT ![nextLink] =
          IF user = UnknownUser
            THEN FinishedLink("unlink", platform, "UserNotFound")
          ELSE IF platform \notin PlatformsOf(socialAccounts)
            THEN FinishedLink("unlink", platform, "NotLinked")
          ELSE [IdleLink EXCEPT !.op = "unlink", !.platform = platform,
                                !.pc = "update", !.seen = socialAccounts]]
    /\ UNCHANGED <<socialAccounts, socialScore, escrowVars, scoreVars, schedVars, riskVars>>

\* unlinkSocialAccount: the list read without the platform's entry is
\* written by user.update
UnlinkWrite(l) ==
    /\ linkOps[l].op = "unlink"
    /\ linkOps[l].pc = "update"
    /\ socialAccounts' = FilterOut(linkOps[l].seen, linkOps[l].platform)
    /\ linkOps' = [linkOps EXCEPT ![l].pc = "done", ![l].result = "unlinked"]
    /\ UNCHANGED <<nextLink, socialScore, escrowVars, scoreVars, schedVars, riskVars>>

\* calculatePlatformBonus, lines 483-501
platformWeights ==
    [p \in supportedPlatforms |->
        CASE p = "facebook" -> 100
          [] p = "instagram" -> 150
          [] p = "whatsapp" -> 100
          [] p = "contact" -> 50]

RECURSIVE SumWeights(_)
SumWeights(P) ==
    IF P = {} THEN 0
    ELSE LET p == CHOOSE x \in P : TRUE
         IN (IF p \in DOMAIN platformWeights THEN platformWeights[p] ELSE 0)
              + SumWeights(P \ {p})

calculatePlatformBonus(accounts) ==
    LET bonus == SumWeights(PlatformsOf(accounts))
    IN IF bonus < 200 THEN bonus ELSE 200

RECURSIVE SumScores(_, _)
SumScores(accounts, I) ==
    IF I = {} THEN 0
    ELSE LET i == CHOOSE x \in I : TRUE
         IN accounts[i].verificationScore + SumScores(accounts, I \ {i})

\* calculateSocialVerificationScore, lines 203-247, as a fraction
\* <<numerator, denominator>> of thousandths; fetched is whether
\* getUserLinkedAccounts resolved
calculateSocialVerificationScore(fetched, accounts) ==
    IF ~fetched THEN <<failureFallback["socialVerification"], 1>>
    ELSE IF Len(accounts) = 0 THEN <<200, 1>>
    ELSE LET verified == {i \in DOMAIN accounts :
                             /\ accounts[i].verificationScore # 0
                             /\ accounts[i].verificationScore > 500}
             verifiedAccounts == Cardinality(verified)
             totalScore == SumScores(accounts, verified)
             platformBonus == calculatePlatformBonus(accounts)
         IN IF verifiedAccounts = 0 THEN <<platformBonus, 1>>
            ELSE IF totalScore + platformBonus * verifiedAccounts
                      > 1000 * verifiedAccounts
              THEN <<1000, 1>>
              ELSE <<totalScore + platformBonus * verifiedAccounts,
                     verifiedAccounts>>

\* one run of the social verification analyzer on the user
ScoreSocial(fetched) ==
    /\ socialScore' =
          [fetched |-> fetched,
           accounts |-> IF fetched THEN socialAccounts ELSE NoAccounts,
           score |-> calculateSocialVerificationScore(fetched, socialAccounts),
           computed |-> TRUE]
    /\ UNCHANGED <<socialAccounts, linkOps, nextLink, escrowVars, scoreVars, schedVars, riskVars>>

NextSocial ==
    \/ \E user \in {SellerUser, UnknownUser}, platform \in RequestedPlatforms :
          \E score \in VerificationOutcomes(platform) :
              LinkStart(user, platform, score)
    \/ \E l \in LinkIds : LinkRead(l)
    \/ \E l \in LinkIds : LinkWrite(l)
    \/ \E user \in {SellerUser, UnknownUser}, platform \in RequestedPlatforms :
          UnlinkRead(user, platform)
    \/ \E l \in LinkIds : UnlinkWrite(l)
    \/ \E fetched \in BOOLEAN : ScoreSocial(fetched)


\* ------------------------------------------------- behavior risk levels
\* BehaviorMonitoringService: this.riskLevels (lines 47-52) in thousandths,
\* in the order Object.entries gives them
riskLevelNames == <<"low", "medium", "high", "critical">>
riskLevels ==
    [low |-> [min |-> 800, max |-> 1000],
     medium |-> [min |-> 500, max |-> 790],
     high |-> [min |-> 200, max |-> 490],
     critical |-> [min |-> 0, max |-> 190]]

\* determineRiskLevel, lines 504-511: the first band that holds the score,
\* medium when none does
RECURSIVE FirstBand(_, _)
FirstBand(score, k) ==
    IF k > Len(riskLevelNames) THEN "medium"
    ELSE IF /\ score >= riskLevels[riskLevelNames[k]].min
            /\ score <= riskLevels[riskLevelNames[k]].max
      THEN riskLevelNames[k]
    ELSE FirstBand(score, k + 1)

determineRiskLevel(score) == FirstBand(score, 1)

\* getRiskLevel, lines 625-630
getRiskLevel(score) ==
    IF score >= 800 THEN "low"
    ELSE IF score >= 500 THEN "medium"
    ELSE IF score >= 200 THEN "high"
    ELSE "critical"

NotClassified == "none"

RiskIdle ==
    /\ behaviorScore = 1000
    /\ riskLevel = NotClassified
    /\ risk = NotClassified

\* analyzeUserBehavior classifies the overall behavior score (line 144)
DetermineRiskLevel ==
    /\ riskLevel' = determineRiskLevel(behaviorScore)
    /\ UNCHANGED <<behaviorScore, risk, escrowVars, scoreVars, schedVars, socialVars>>

\* the pattern analyzers classify a score with the helper (lines 255, 326,
\* 398)
GetRiskLevel ==
    /\ risk' = getRiskLevel(behaviorScore)
    /\ UNCHANGED <<behaviorScore, riskLevel, escrowVars, scoreVars, schedVars, socialVars>>

NextRisk ==
    \/ DetermineRiskLevel
    \/ GetRiskLevel

\* the ledger while only the scoring service runs
EscrowIdle ==
    /\ orders = [o \in OrderIds |-> NoOrder]
    /\ txns = [t \in OrderIds |-> NoTxn]
    /\ product = [price |-> 100, quantity |-> 1, status |-> "active",
                  seller_id |-> SellerUser]
    /\ stock0 = 1
    /\ productLock = NoLock
    /\ calls = [c \in CallIds |-> IdleCall]
    /\ nextCall = 1
    /\ backendCalls = [c \in CallIds |-> "none"]

Init == EscrowInit /\ ScoreIdle /\ SchedIdle /\ SocialIdle /\ RiskIdle
Spec == Init /\ [][Next]_vars

InitScore == EscrowIdle /\ ScoreIdle /\ SchedIdle /\ SocialIdle /\ RiskIdle
SpecScore == InitScore /\ [][NextScore]_vars

InitSched == EscrowIdle /\ ScoreIdle /\ SchedIdle /\ SocialIdle /\ RiskIdle
SpecSched == InitSched /\ [][NextSched]_vars

InitSocial == EscrowIdle /\ ScoreIdle /\ SchedIdle /\ SocialIdle /\ RiskIdle
SpecSocial == InitSocial /\ [][NextSocial]_vars

\* any score in [0, 1] is classified
InitRisk ==
    /\ EscrowIdle /\ ScoreIdle /\ SchedIdle /\ SocialIdle
    /\ behaviorScore \in Thousandths
    /\ riskLevel = NotClassified
    /\ risk = NotClassified
SpecRisk == InitRisk /\ [][NextRisk]_vars

\* ===================================================================
\* Properties of the escrow orchestrator (checked under Spec)
\* ===================================================================

TxnsOf(o) == {t \in OrderIds : txns[t] # NoTxn /\ txns[t].order_id = o}

\* C1: rollback completeness.  Whenever the settlement backend has reported
\* failure to a createProductEscrow call, that call has ended with the
\* SettlementFailed error and the ledger holds no Order and no Transaction
\* carrying the order id the call generated.
C1_RollbackComplete ==
    \A c \in CallIds :
        (calls[c].op = "create" /\ backendCalls[c] = "failure") =>
            /\ calls[c].pc = "done"
            /\ calls[c].result = "SettlementFailed"
            /\ orders[calls[c].orderId] = NoOrder
            /\ TxnsOf(calls[c].orderId) = {}

C1_Witness ==
    \E c \in CallIds : calls[c].op = "create" /\ backendCalls[c] = "failure"

\* C2: no oversell.  When the product starts with one unit in stock, the
\* stock never becomes negative and at most one createProductEscrow call
\* commits a decrement of it.
C2_NoOversell ==
    stock0 = 1 =>
        /\ product.quantity >= 0
        /\ Cardinality({c \in CallIds :
               calls[c].op = "create" /\ backendCalls[c] = "success"}) <= 1

\* C3: a successful purchase.  The step that commits a createProductEscrow
\* call's local transaction writes an Order of amount price * n and takes
\* exactly n units off the committed stock q, leaving q - n; the step that
\* ends the call with result paid leaves that Order with status paid and
\* amount price * n.
C3_PurchaseOutcome ==
    [][\A c \in CallIds :
        /\ (calls[c].op = "create" /\ calls[c].pc = "settle"
              /\ calls'[c].pc = "outcome") =>
             /\ product'.quantity = product.quantity - calls[c].qty
             /\ orders'[calls[c].orderId].amount = product.price * calls[c].qty
             /\ orders'[calls[c].orderId].quantity = calls[c].qty
        /\ (calls[c].op = "create" /\ calls[c].pc = "outcome"
              /\ calls'[c].result = "paid") =>
             /\ orders'[calls[c].orderId].status = "paid"
             /\ orders'[calls[c].orderId].amount
                  = product.price * orders'[calls[c].orderId].quantity
             /\ product' = product]_vars

C3_Witness ==
    \E c \in CallIds :
        /\ calls[c].op = "create" /\ calls[c].result = "paid"
        /\ orders[calls[c].orderId].status = "paid"
        /\ orders[calls[c].orderId].quantity = 2
        /\ orders[calls[c].orderId].amount = 2 * product.price
        /\ product.quantity = stock0 - 2

ReleaseRejections == {"Forbidden", "NoEscrow", "InvalidState"}

\* C4: a releaseEscrow call made by a user who is not the order's buyer, or
\* for an order that is not paid, ends at once with an error, and neither
\* that step nor any later one invokes the settlement backend for it,
\* creates a Transaction row for it, or changes an Order.
C4_ReleaseRejected ==
    [][\A c \in CallIds :
        /\ (calls[c].op = "none" /\ calls'[c].op = "release"
              /\ orders[calls'[c].orderId] # NoOrder
              /\ (\/ orders[calls'[c].orderId].buyer_id # calls'[c].user
                  \/ orders[calls'[c].orderId].status # "paid")) =>
             /\ calls'[c].pc = "done"
             /\ calls'[c].result \in ReleaseRejections
             /\ orders' = orders
             /\ txns' = txns
             /\ backendCalls' = backendCalls
        /\ (calls[c].op = "release" /\ calls[c].result \in ReleaseRejections) =>
             /\ calls'[c] = calls[c]
             /\ backendCalls'[c] = "none"
             /\ txns'[c] = NoTxn]_vars

C4_Witness ==
    \E c \in CallIds :
        /\ calls[c].op = "release"
        /\ calls[c].result \in {"Forbidden", "InvalidState"}
        /\ calls[c].result = "InvalidState" =>
              orders[calls[c].orderId].status = "completed"
        /\ calls[c].result = "Forbidden" =>
              orders[calls[c].orderId].buyer_id # calls[c].user

\* C8: terminal states are absorbing.  No step changes the status of an
\* Order that is completed, cancelled or refunded.
C8_TerminalAbsorbing ==
    [][\A o \in OrderIds :
        orders[o].status \in TerminalOrderStatus =>
            orders'[o].status = orders[o].status]_vars

\* C9: an Order whose status is paid has exactly one escrow_create
\* Transaction, and that Transaction is submitted or later (neither pending
\* nor failed).
C9_PaidHasSubmittedCreate ==
    \A o \in OrderIds :
        orders[o].status = "paid" =>
            LET created == {t \in TxnsOf(o) :
                              txns[t].transaction_type = "escrow_create"} IN
            /\ Cardinality(created) = 1
            /\ \A t \in created : txns[t].status \notin {"pending", "failed"}

TransactionTypes == {"escrow_create", "escrow_release", "escrow_refund",
                     "escrow_dispute", "direct_transfer"}

\* C10: for each Order and each transaction type, at most one Transaction of
\* that type is pending or submitted.
C10_OneOpenTxnPerType ==
    \A o \in OrderIds, ty \in TransactionTypes :
        Cardinality({t \in TxnsOf(o) :
            /\ txns[t].transaction_type = ty
            /\ txns[t].status \in {"pending", "submitted"}}) <= 1

\* C11: operations on one order are serialized.  A releaseEscrow call and a
\* raiseDispute call for the same order never both have the settlement
\* backend invoked and not yet answered: at most one of two concurrent calls
\* passes the status guard.
C11_ReleaseDisputeSerialized ==
    \A c1, c2 \in CallIds :
        ~ /\ calls[c1].op = "release" /\ calls[c2].op = "dispute"
          /\ calls[c1].orderId = calls[c2].orderId
          /\ calls[c1].pc = "settle" /\ backendCalls[c1] = "invoked"
          /\ calls[c2].pc = "settle" /\ backendCalls[c2] = "invoked"

\* C12: intent before the external call.  While the settlement backend is
\* invoked for a call, the call's pending Transaction row and its Order are
\* committed and the call holds no open local transaction (no row lock).
C12_IntentCommittedBeforeCall ==
    \A c \in CallIds :
        backendCalls[c] = "invoked" =>
            /\ txns[generateTransactionId(c)] # NoTxn
            /\ txns[generateTransactionId(c)].status = "pending"
            /\ orders[calls[c].orderId] # NoOrder
            /\ productLock # c

C14_ReconciliationReported ==
    \A c \in CallIds :
        (/\ calls[c].op \in {"release", "dispute"} /\ calls[c].pc = "done"
         /\ backendCalls[c] = "success"
         /\ calls[c].result \notin {"released", "dispute_raised"}) =>
            /\ Reply(calls[c].result) # Reply("SettlementFailed")
            /\ Reply(calls[c].result).success
            /\ Reply(calls[c].result).warning

\* the step in which createProductEscrow call c learns that the settlement
\* failed and returns
CreateFails(c) ==
    /\ calls[c].op = "create" /\ calls[c].pc = "settle"
    /\ calls'[c].result = "SettlementFailed"

C17_TxnHasOrder ==
    \A t \in OrderIds :
        txns[t] # NoTxn => orders[txns[t].order_id] # NoOrder

C17_Witness ==
    /\ \E c \in CallIds :
          calls[c].op = "create" /\ backendCalls[c] = "failure"
    /\ \E t \in OrderIds :
          txns[t] # NoTxn /\ txns[t].transaction_type # "escrow_create"

\* C19: the step in which a releaseEscrow call learns that the settlement
\* failed ends the call with an error and leaves the Order with status paid
\* and the escrow_release Transaction the call created with status failed.
C19_ReleaseFailureRestores ==
    [][\A c \in CallIds :
        (/\ calls[c].op = "release" /\ calls[c].pc = "settle"
         /\ backendCalls'[c] = "failure") =>
            /\ calls'[c].pc = "done"
            /\ Reply(calls'[c].result).kind = "Error"
            /\ orders'[calls[c].orderId].status = "paid"
            /\ txns'[generateTransactionId(c)].transaction_type = "escrow_release"
            /\ txns'[generateTransactionId(c)].order_id = calls[c].orderId
            /\ txns'[generateTransactionId(c)].status = "failed"]_vars

C19_Witness ==
    \E c \in CallIds :
        /\ calls[c].op = "release" /\ backendCalls[c] = "failure"
        /\ calls[c].pc = "done"
        /\ orders[calls[c].orderId].status = "paid"
        /\ txns[generateTransactionId(c)].status = "failed"

\* C20: the raiseDispute protocol, step by step.  A call by a user who is
\* neither buyer nor seller of the order ends at once with an error and
\* changes no Order and no Transaction.  The intent commit of an accepted
\* call leaves a pending escrow_dispute Transaction of the call and the
\* Order with status dispute_pending.  The step that ends the call after a
\* successful settlement leaves Order and Transaction disputed; the step
\* that ends it after a failed settlement leaves the Order paid and the
\* Transaction failed.
C20_DisputeProtocol ==
    [][\A c \in CallIds :
        /\ (/\ calls[c].op = "none" /\ calls'[c].op = "dispute"
            /\ orders[calls'[c].orderId] # NoOrder
            /\ calls'[c].user # orders[calls'[c].orderId].buyer_id
            /\ calls'[c].user # orders[calls'[c].orderId].seller_id) =>
              /\ calls'[c].pc = "done"
              /\ Reply(calls'[c].result).kind = "Error"
              /\ orders' = orders /\ txns' = txns
              /\ backendCalls' = backendCalls
        /\ (calls[c].op = "dispute" /\ calls[c].pc = "intent"
              /\ calls'[c].pc = "settle") =>
              /\ txns'[generateTransactionId(c)].transaction_type = "escrow_dispute"
              /\ txns'[generateTransactionId(c)].order_id = calls[c].orderId
              /\ txns'[generateTransactionId(c)].status = "pending"
              /\ orders'[calls[c].orderId].status = "dispute_pending"
        /\ (calls[c].op = "dispute" /\ calls[c].pc = "settle"
              /\ calls'[c].result = "dispute_raised") =>
              /\ orders'[calls[c].orderId].status = "disputed"
              /\ txns'[generateTransactionId(c)].status = "disputed"
        /\ (calls[c].op = "dispute" /\ calls[c].pc = "settle"
              /\ backendCalls'[c] = "failure") =>
              /\ orders'[calls[c].orderId].status = "paid"
              /\ txns'[generateTransactionId(c)].status = "failed"]_vars

PreSettlementFailures == {"NotFound", "InvalidState", "UploadFailed"}

\* C21: a createProductEscrow call that fails before the settlement call
\* (buyer or product not found, product not active, stock below the
\* requested quantity, metadata upload failed) has no side effect: the step
\* that ends it changes no Order, no Transaction, not the product and invokes
\* no backend, and the call never has an Order, a Transaction or a backend
\* invocation of its own.
C21_NoSideEffects ==
    [][\A c \in CallIds :
        (calls'[c].op = "create" /\ calls'[c].result \in PreSettlementFailures) =>
            /\ calls[c].pc # "done" =>
                  /\ orders' = orders /\ txns' = txns /\ product' = product
                  /\ productLock' = productLock
                  /\ backendCalls' = backendCalls
            /\ backendCalls'[c] = "none"
            /\ txns'[generateTransactionId(c)] = NoTxn
            /\ calls'[c].orderId \in OrderIds => orders'[calls'[c].orderId] = NoOrder]_vars

C21_Witness ==
    /\ \E c \in CallIds :
          calls[c].op = "create" /\ calls[c].result = "UploadFailed"
    /\ \E c \in CallIds :
          calls[c].op = "create" /\ calls[c].result = "InvalidState"
    /\ product.quantity = stock0

\* C26: every Order status in the ledger is a member of the declared
\* OrderStatus set and every Transaction status a member of the declared
\* PaymentStatus set
C26_StatusesDeclared ==
    /\ \A o \in OrderIds : orders[o] # NoOrder => orders[o].status \in OrderStatus
    /\ \A t \in OrderIds : txns[t] # NoTxn => txns[t].status \in PaymentStatus

\* the step in which call c, of one of the operations ops, learns that its
\* settlement call has failed and compensates
SettlementFails(c, ops) ==
    /\ calls[c].op \in ops
    /\ calls[c].pc = "settle"
    /\ calls'[c].pc = "done"
    /\ calls'[c].result = "SettlementFailed"

\* C27: a raiseDispute whose settlement call fails leaves the Order with
\* the status it had when the call was made, whatever that status was
C27_DisputeFailureRestores ==
    [][\A c \in CallIds :
        SettlementFails(c, {"dispute"}) =>
            orders'[calls[c].orderId].status = calls[c].seenStatus]_vars

\* C28: when a releaseEscrow or raiseDispute fails at its settlement step,
\* its compensation changes no Transaction but the one the call created
C28_CompensationFrame ==
    [][\A c \in CallIds :
        SettlementFails(c, {"release", "dispute"}) =>
            \A t \in OrderIds :
                t # generateTransactionId(c) => txns'[t] = txns[t]]_vars

\* ===================================================================
\* Properties of the scoring aggregation (checked under SpecScore)
\* ===================================================================

ScoreOf == [a \in Analyzers |-> IF Usable(scores[a]) THEN scores[a].score ELSE 0]

\* C5: renormalization.  The overall seller score of calculateSellerScore is
\* the weighted mean over the analyzers that did not fail: a failed analyzer
\* adds to neither the numerator nor the denominator.
C5_Renormalized ==
    phase = "scored" =>
        LET ok == Analyzers \ failed
            num == SumOver(ok, ScoreOf, scoringWeights)
            den == SumOver(ok, scoringWeights, One)
        IN IF den > 0 THEN overallScore[1] * den = num * overallScore[2]
           ELSE overallScore = <<500, 1>>

TierRank(t) ==
    CASE t = "veryPoor" -> 0 [] t = "poor" -> 1 [] t = "fair" -> 2
      [] t = "good" -> 3 [] t = "veryGood" -> 4 [] t = "excellent" -> 5

\* C6: tier monotonicity.  The tier of a score is never above the tier of a
\* larger score; 0.90 is Excellent and every score in [0.80, 0.90) is
\* VeryGood.
C6_TierMonotone ==
    phase = "tiered" =>
        LET v == overallScore[1] IN
        /\ \A v2 \in Thousandths :
              v < v2 => TierRank(scoreTier) <= TierRank(getScoreTier(<<v2, 1>>))
        /\ v = 900 => scoreTier = "excellent"
        /\ (v >= 800 /\ v < 900) => scoreTier = "veryGood"

NoUsableScore == \A a \in Analyzers : ~Usable(scores[a])

TierNames == {scoreTiers[i].tier : i \in 1..Len(scoreTiers)}

\* C23: analyzer failures are contained.  calculateSellerScore throws only
\* for a user that does not exist, before any analyzer has run; an analyzer
\* whose data fetch failed has settled with a numeric score of its own; and
\* the call of an existing user ends with a composite score and a tier,
\* whatever set of analyzers failed.
C23_FailuresContained ==
    /\ phase = "failed" =>
          failed = {} /\ \A a \in Analyzers : scores[a] = Missing
    /\ \A a \in failed : Usable(scores[a])
    /\ phase = "scored" =>
          /\ overallScore[2] > 0
          /\ overallScore[1] >= 0 /\ overallScore[1] <= 1000 * overallScore[2]
          /\ scoreTier \in TierNames

C23_Witness == phase = "scored" /\ failed = Analyzers

\* ===================================================================
\* Properties of the schedulers (checked under SpecSched)
\* ===================================================================

\* C15: scheduler re-entrancy.  For each scheduler family, two runs of the
\* family's queue processing are never active at the same time: a timer
\* tick that fires while a run is still processing starts no new run.
C15_NoOverlappingRuns ==
    \A f \in Families : ActiveRuns(f) <= 1

\* C22: a failure while evaluating one subject does not stop the batch.  A
\* run of the queue processing leaves the loop position with k subjects left
\* (k > 0) only for the position with k - 1 left, whether or not the
\* subject's evaluation failed: no run ends, and none skips a subject, while
\* subjects are left.
C22_BatchContinues ==
    [][\A f \in Families, k \in 1..BatchLimit :
        runs'[f][InLoop(k)] < runs[f][InLoop(k)] =>
            /\ runs'[f][InLoop(k)] = runs[f][InLoop(k)] - 1
            /\ runs'[f][InLoop(k - 1)] = runs[f][InLoop(k - 1)] + 1
            /\ \A st \in RunStates \ {InLoop(k), InLoop(k - 1)} :
                  runs'[f][st] = runs[f][st]]_vars

\* family f has logged a subject's error and its one run is still in the
\* loop, with a subject left to attempt
C22_Witness ==
    \E f \in Families :
        /\ errorLog = {f}
        /\ ActiveRuns(f) = 1
        /\ runs[f][InLoop(1)] = 1
\* ===================================================================
\* properties of the social accounts
\* ===================================================================

\* the accounts the specification counts as verified: score >= 0.5
AtLeastHalf(accounts) ==
    {i \in DOMAIN accounts : accounts[i].verificationScore >= 500}

\* C24: the social verification score of a user with at least one linked
\* account is min(1, A + B), A being the mean of the accounts' verification
\* scores that are >= 0.5 (0 if there is none) and B the capped platform
\* bonus; a user with no linked account gets a fixed non-zero floor
C24_SocialScoreFormula ==
    (socialScore.computed /\ socialScore.fetched) =>
        LET accounts == socialScore.accounts
            n == Cardinality(AtLeastHalf(accounts))
            total == SumScores(accounts, AtLeastHalf(accounts))
            B == calculatePlatformBonus(accounts)
            num == socialScore.score[1]
            den == socialScore.score[2]
        IN IF Len(accounts) = 0 THEN num > 0
           ELSE IF n = 0 THEN num = den * B
           ELSE num * n = den * (IF total + B * n > 1000 * n THEN 1000 * n
                                 ELSE total + B * n)

EntriesOf(accounts, platform) ==
    {i \in DOMAIN accounts : accounts[i].platform = platform}

C29_BothLinksPresent ==
    \A l1, l2 \in LinkIds :
        (/\ l1 # l2
         /\ linkOps[l1].result = "linked"
         /\ linkOps[l2].result = "linked"
         /\ linkOps[l1].platform # linkOps[l2].platform
         /\ \A l \in LinkIds : linkOps[l].op # "unlink") =>
            {linkOps[l1].platform, linkOps[l2].platform}
                \subseteq PlatformsOf(socialAccounts)

\* ===================================================================
\* properties of the behavior risk levels
\* ===================================================================

\* C30: the two risk classifiers agree on every score in [0, 1]
C30_ClassifiersAgree ==
    (riskLevel # NotClassified /\ risk # NotClassified) => riskLevel = risk

====
